---------------------------- MODULE Spec2Model ----------------------------
(***************************************************************************)
(* The replication service of replications/service.go as a state machine.  *)
(*                                                                         *)
(* The catalog (table "replications") and the durable queue manager are    *)
(* the two stores the service keeps in step.  Every exported method of the *)
(* service is split into one action per statement that touches shared      *)
(* state (a lock, the catalog, the queue manager, the local writer), so    *)
(* that callers interleave exactly where goroutines can.                   *)
(*                                                                         *)
(* The queue manager's implementation (replications/internal) is not part  *)
(* of the sources at hand: only its interface (service.go:77-85) and the   *)
(* generated mock are.  Its operations (the Q... operators) are therefore  *)
(* modelled from section 4.C of the specification.                         *)
(*                                                                         *)
(* Six specifications share the actions.  Spec is the control plane:      *)
(* every method that mutates the catalog, Open, and the process stopping   *)
(* and starting again.  SpecWrite is the write path: WritePoints from      *)
(* every caller beside creates and deletes.  SpecList is the read path:    *)
(* ListReplications beside creates, updates, deletes and a write.          *)
(* SpecDecode is DeleteBucketReplications over rows whose id may not       *)
(* decode.  SpecOpen is Open called while creates and deletes run.         *)
(* SpecFair is the mutations with callers waiting for the mutex, under     *)
(* fair scheduling.                                                        *)
(***************************************************************************)
EXTENDS Integers, Sequences, FiniteSets, TLC

\* ----------------------------------------------------------------- bounds

\* Ids the id generator hands out before the model stops creating.
MaxId == 2
\* WritePoints calls over a behaviour.
MaxCalls == 2
\* Points in one WritePoints call.
MaxPts == 1

\* ------------------------------------------------------------ input domains

Procs == {"c1", "c2"}
None == "none"

Ids == 1..MaxId

Orgs == {"o1", "o2"}
\* Buckets the bucket service knows; "b0" is a bucket id it does not know.
Buckets == {"b1", "b2"}
BucketArgs == Buckets \cup {"b0"}
\* max_queue_size_bytes values a request may carry.
MaxSizes == {3, 6}

RECURSIVE SeqsUpTo(_, _)
SeqsUpTo(S, n) ==
    IF n = 0 THEN {<<>>}
    ELSE LET shorter == SeqsUpTo(S, n - 1)
         IN shorter \cup {Append(s, x) : s \in {t \in shorter : Len(t) = n - 1}, x \in S}

\* The points argument of WritePoints: sequences of points.
PointSeqs == SeqsUpTo({"p"}, MaxPts) \ {<<>>}

\* --------------------------------------------------------- pure functions

\* p.PrecisionString("ns") followed by '\n': one line of line protocol.
Line(p) == <<p, "ns", "\n">>

\* The bytes the serializer task writes through gzw: one line per point.
LineProtocol(pts) == [i \in 1..Len(pts) |-> Line(pts[i])]

\* gzip.Writer over buf: a header and a trailer frame the written lines, so
\* the gzip of the empty stream is not the empty buffer.
Gzip(lines) == <<"gzhdr">> \o lines \o <<"gztrl">>

\* The request's row as inserted by CreateReplication.
Row(org, bucket, max) == [org |-> org, bucket |-> bucket, max |-> max]

\* SELECT id FROM replications WHERE org_id = ? AND local_bucket_id = ?
MatchingIds(cat, org, bucket) ==
    {i \in DOMAIN cat : cat[i].org = org /\ cat[i].bucket = bucket}

\* DELETE FROM replications WHERE local_bucket_id = ? RETURNING id
BucketIds(cat, bucket) == {i \in DOMAIN cat : cat[i].bucket = bucket}

\* SELECT id, max_queue_size_bytes FROM replications, as the map Open builds.
TrackedMap(cat) == [i \in DOMAIN cat |-> cat[i].max]

Restrict(f, S) == [i \in S |-> f[i]]

EmptyMap == [i \in {} |-> 0]

\* ------------------------------------------- durable queue manager (4.C)

\* One enqueued record: the blob, its point count, and the WritePoints call
\* it came from (the call number is bookkeeping of the model).
Rec(call, data, n) == [call |-> call, data |-> data, n |-> n]

RecSize(r) == Len(r.data)

RECURSIVE QueueSize(_)
QueueSize(recs) == IF recs = <<>> THEN 0 ELSE RecSize(Head(recs)) + QueueSize(Tail(recs))

\* Drop the oldest records until room more bytes fit under bound max.
RECURSIVE DropOldest(_, _, _)
DropOldest(recs, max, room) ==
    IF recs = <<>> \/ QueueSize(recs) + room <= max THEN recs
    ELSE DropOldest(Tail(recs), max, room)

\* InitializeQueue(id, max): create the directory, open an empty bounded log.
QInitializeQueue(q, id, max) == (id :> [max |-> max, recs |-> <<>>]) @@ q

\* DeleteQueue(id): close, remove the directory, unregister.
QDeleteQueue(q, id) == Restrict(q, DOMAIN q \ {id})

\* UpdateMaxQueueSize(id, max): adjust the bound, dropping oldest on shrink.
QUpdateMaxQueueSize(q, id, max) ==
    [q EXCEPT ![id] = [max |-> max, recs |-> DropOldest(q[id].recs, max, 0)]]

\* EnqueueData accepts a record when the queue exists and the record fits
\* under the bound at all.
QCanEnqueue(q, id, r) == id \in DOMAIN q /\ RecSize(r) <= q[id].max

\* EnqueueData(id, data, n): append one record, dropping oldest to make room.
QEnqueueData(q, id, r) ==
    [q EXCEPT ![id].recs = Append(DropOldest(q[id].recs, q[id].max, RecSize(r)), r)]

\* StartReplicationQueues(tracked): every tracked id has an open queue under
\* its recorded bound; every directory of an untracked id is removed.
QStartReplicationQueues(q, tracked) ==
    [i \in DOMAIN tracked |->
        IF i \in DOMAIN q
        THEN [max |-> tracked[i], recs |-> DropOldest(q[i].recs, tracked[i], 0)]
        ELSE [max |-> tracked[i], recs |-> <<>>]]

\* CurrentQueueSizes(ids): bytes on disk of every id that exists.
QCurrentQueueSizes(q, ids) ==
    [i \in ids \cap DOMAIN q |-> QueueSize(q[i].recs)]

\* The (queue id, call number) pairs of the records held by the queues q.
RecordsOf(q) ==
    UNION {{<<i, q[i].recs[k].call>> : k \in 1..Len(q[i].recs)} : i \in DOMAIN q}

\* The model's note of inserted rows: each as inserted, not yet updated.
AsCreated(cat) == [i \in DOMAIN cat |-> [row |-> cat[i], updated |-> FALSE]]

\* The note after a statement that took the catalog from cat to cat2: a row
\* the statement changed is marked updated.
NoteUpdates(cr, cat, cat2) ==
    [i \in DOMAIN cr |->
        IF i \in DOMAIN cat /\ i \in DOMAIN cat2 /\ cat2[i] # cat[i]
        THEN [cr[i] EXCEPT !.updated = TRUE]
        ELSE cr[i]]

\* ------------------------------------------------------------------ state

VARIABLES
    catalog,      \* table replications: id -> [org, bucket, max]
    queues,       \* the queue manager's queues: id -> [max, recs]
    nextId,       \* the id generator's next id
    nextCall,     \* number of the next WritePoints call
    mu,           \* holder of store.Mu, or None
    rlock,        \* callers holding the bucket service's read lock
    opened,       \* Open has returned nil since the process started
    pc,           \* each caller's position
    frame,        \* each caller's arguments, locals and return value
    delFailed,    \* ids whose DeleteQueue returned an error, queue still there
    resizeFailed, \* rows whose last UpdateMaxQueueSize returned an error
    dropped,      \* (id, call) of records of running calls that were evicted
                  \* or deleted with their queue
    deletedOk,    \* ids some DeleteReplication has returned nil for
    created,      \* id -> the row as it was inserted and whether an UPDATE
                  \* has changed it since, while the row is there
    written       \* ids of rows whose queue has taken an EnqueueData

vars == <<catalog, queues, nextId, nextCall, mu, rlock, opened, pc, frame, delFailed, resizeFailed, dropped, deletedOk, created, written>>

\* A caller's frame: the arguments of the method it runs, the locals the
\* method declares, and err/ret as it returns.
NoFrame ==
    [name |-> None, id |-> 0, org |-> "", bucket |-> "", max |-> 0,
     hasMax |-> FALSE, pts |-> <<>>, call |-> 0,
     ids |-> {}, pending |-> {}, tracked |-> EmptyMap,
     lres |-> "", sres |-> "", gerr |-> "", buf |-> <<>>,
     log |-> {}, ncalls |-> 0, insErr |-> "", errOccurred |-> FALSE,
     rows |-> EmptyMap, result |-> EmptyMap, known |-> EmptyMap, prior |-> {}, diverged |-> {},
     ret |-> ""]

\* One line of the model's log of queue-manager invocations of a call.
Invocation(id, data, n, ok) == [id |-> id, data |-> data, n |-> n, ok |-> ok]

Goto(p, label) == pc' = [pc EXCEPT ![p] = label]

SetFrame(p, f) == frame' = [frame EXCEPT ![p] = f]

\* The queue manager's state changes to q; records that left are noted.
SetQueues(q) ==
    /\ queues' = q
    /\ dropped' = dropped \cup
                    {d \in RecordsOf(queues) \ RecordsOf(q) :
                        \E p \in Procs : frame[p].call = d[2]}
    /\ delFailed' = delFailed \cap DOMAIN q

\* What a new service may find: an empty catalog, or a row left by an earlier
\* run whose queue directory is missing; the id generator is past its id.
InitCatalogs == {EmptyMap, (1 :> Row("o1", "b1", 6))}

Init ==
    /\ catalog \in InitCatalogs
    /\ queues = EmptyMap
    /\ nextId = Cardinality(DOMAIN catalog) + 1
    /\ nextCall = 1
    /\ mu = None
    /\ rlock = {}
    /\ opened = FALSE
    /\ pc = [p \in Procs |-> "idle"]
    /\ frame = [p \in Procs |-> NoFrame]
    /\ delFailed = {}
    /\ resizeFailed = {}
    /\ dropped = {}
    /\ deletedOk = {}
    /\ created = AsCreated(catalog)
    /\ written = {}

\* ------------------------------------------------------------- Open, crash

\* A caller invokes Open on a process that has not opened its queues yet
\* (process start: no other call is running).
StartOpen(p) ==
    /\ ~opened
    /\ \A q \in Procs : pc[q] = "idle"
    /\ Goto(p, "op_select")
    /\ SetFrame(p, [NoFrame EXCEPT !.name = "Open"])
    /\ UNCHANGED <<catalog, queues, nextId, nextCall, mu, rlock,
                   opened, delFailed, resizeFailed, dropped>>
    /\ UNCHANGED <<deletedOk, created, written>>

\* A caller invokes Open on a service that is taking calls: Open takes no
\* lock and nothing in it waits for the calls in flight.
OpenRunning(p) ==
    /\ opened
    /\ pc[p] = "idle"
    /\ Goto(p, "op_select")
    /\ SetFrame(p, [NoFrame EXCEPT !.name = "Open"])
    /\ UNCHANGED <<catalog, queues, nextId, nextCall, mu, rlock,
                   opened, delFailed, resizeFailed, dropped>>
    /\ UNCHANGED <<deletedOk, created, written>>

\* Open: SELECT id, max_queue_size_bytes; build trackedReplicationsMap.
OpenSelect(p) ==
    /\ pc[p] = "op_select"
    /\ \/ /\ SetFrame(p, [frame[p] EXCEPT !.tracked = TrackedMap(catalog)])
          /\ Goto(p, "op_start")
       \/ /\ SetFrame(p, [frame[p] EXCEPT !.ret = "Internal"])
          /\ Goto(p, "op_ret")
    /\ UNCHANGED <<catalog, queues, nextId, nextCall, mu, rlock,
                   opened, delFailed, resizeFailed, dropped>>
    /\ UNCHANGED <<deletedOk, created, written>>

\* OpenStart without the call of StartReplicationQueues: Open returns nil
\* with the directories as it found them.
OpenStartNoReconcile(p) ==
    /\ pc[p] = "op_start"
    /\ SetFrame(p, [frame[p] EXCEPT !.ids = DOMAIN queues, !.ret = "ok"])
    /\ Goto(p, "op_ret")
    /\ UNCHANGED <<catalog, queues, nextId, nextCall, mu, rlock, opened,
                   delFailed, resizeFailed, dropped, deletedOk, created, written>>

\* Open: StartReplicationQueues(trackedReplicationsMap), its error returned.
\* ids and diverged are the model's notes of the directories Open found and
\* of the tracked ids whose last UpdateMaxQueueSize had failed.
OpenStart(p) ==
    /\ pc[p] = "op_start"
    /\ \/ /\ SetQueues(QStartReplicationQueues(queues, frame[p].tracked))
          /\ resizeFailed' = resizeFailed \ DOMAIN frame[p].tracked
          /\ SetFrame(p, [frame[p] EXCEPT
                 !.ids = DOMAIN queues,
                 !.diverged = resizeFailed \cap DOMAIN frame[p].tracked,
                 !.ret = "ok"])
       \/ /\ SetFrame(p, [frame[p] EXCEPT !.ret = "QueueErr"])
          /\ UNCHANGED <<queues, dropped, delFailed, resizeFailed>>
    /\ Goto(p, "op_ret")
    /\ UNCHANGED <<catalog, nextId, nextCall, mu, rlock, opened>>
    /\ UNCHANGED <<deletedOk, created, written>>

\* Open returns; the service takes calls once it has returned nil.
OpenReturn(p) ==
    /\ pc[p] = "op_ret"
    /\ opened' = (opened \/ frame[p].ret = "ok")
    /\ Goto(p, "idle")
    /\ SetFrame(p, NoFrame)
    /\ UNCHANGED <<catalog, queues, nextId, nextCall, mu, rlock, delFailed, resizeFailed, dropped>>
    /\ UNCHANGED <<deletedOk, created, written>>

\* The process stops at any step (crash or shutdown): every call in flight is
\* gone with its locks; the catalog and the queue directories stay.
Crash ==
    /\ opened
    /\ opened' = FALSE
    /\ mu' = None
    /\ rlock' = {}
    /\ pc' = [p \in Procs |-> "idle"]
    /\ frame' = [p \in Procs |-> NoFrame]
    /\ dropped' = {}
    /\ UNCHANGED <<catalog, queues, nextId, nextCall, delFailed, resizeFailed>>
    /\ UNCHANGED <<deletedOk, created, written>>

\* ------------------------------------------------------------ the mutex

\* A caller invokes the mutation called name while another caller holds the
\* mutex: its s.store.Mu.Lock() blocks, the caller waits at position at.
Blocked(p, name, at) ==
    /\ opened
    /\ pc[p] = "idle"
    /\ mu # None
    /\ Goto(p, at)
    /\ SetFrame(p, [NoFrame EXCEPT !.name = name])
    /\ UNCHANGED <<catalog, queues, nextId, nextCall, mu, rlock, opened,
                   delFailed, resizeFailed, dropped>>
    /\ UNCHANGED <<deletedOk, created, written>>

\* The s.store.Mu.Lock() of a caller waiting at position at returns, the
\* mutex being free: the caller holds it and goes on at position to.
Acquire(p, at, to) ==
    /\ pc[p] = at
    /\ mu = None
    /\ mu' = p
    /\ Goto(p, to)
    /\ UNCHANGED <<catalog, queues, nextId, nextCall, rlock, opened, frame,
                   delFailed, resizeFailed, dropped>>
    /\ UNCHANGED <<deletedOk, created, written>>

\* ------------------------------------------------------ CreateReplication

\* Creates that have been invoked and have not drawn their id yet.
PendingCreates ==
    Cardinality({q \in Procs : pc[q] \in {"cr_lock", "cr_find", "cr_init"}})

\* A caller invokes CreateReplication: s.bucketService.RLock().  (No writer
\* of that lock is part of the service, so the read lock is free.)  The
\* fields of a request are drawn at the statement that first reads them: the
\* caller fixed them with the call, and until read they decide nothing.
CrRLock(p) ==
    /\ opened
    /\ pc[p] = "idle"
    /\ nextId + PendingCreates <= MaxId
    /\ rlock' = rlock \cup {p}
    /\ Goto(p, "cr_lock")
    /\ SetFrame(p, [NoFrame EXCEPT !.name = "CreateReplication"])
    /\ UNCHANGED <<catalog, queues, nextId, nextCall, mu, opened,
                   delFailed, resizeFailed, dropped>>
    /\ UNCHANGED <<deletedOk, created, written>>

\* s.store.Mu.Lock()
CrLock(p) ==
    /\ pc[p] = "cr_lock"
    /\ mu = None
    /\ mu' = p
    /\ Goto(p, "cr_find")
    /\ UNCHANGED <<catalog, queues, nextId, nextCall, rlock, opened, frame, delFailed, resizeFailed, dropped>>
    /\ UNCHANGED <<deletedOk, created, written>>

\* CrFind with FindBucketByID's error dropped: the call goes on to draw its
\* id whatever the bucket.
CrFindUnchecked(p, bucket) ==
    /\ pc[p] = "cr_find"
    /\ Goto(p, "cr_init")
    /\ SetFrame(p, [frame[p] EXCEPT !.bucket = bucket])
    /\ UNCHANGED <<catalog, queues, nextId, nextCall, mu, rlock,
                   opened, delFailed, resizeFailed, dropped>>
    /\ UNCHANGED <<deletedOk, created, written>>

\* FindBucketByID: any error becomes errLocalBucketNotFound.
CrFind(p, bucket) ==
    /\ pc[p] = "cr_find"
    /\ IF bucket \in Buckets
       THEN /\ Goto(p, "cr_init")
            /\ SetFrame(p, [frame[p] EXCEPT !.bucket = bucket])
       ELSE /\ Goto(p, "cr_ret")
            /\ SetFrame(p, [frame[p] EXCEPT !.bucket = bucket,
                                            !.ret = "LocalBucketNotFound"])
    /\ UNCHANGED <<catalog, queues, nextId, nextCall, mu, rlock,
                   opened, delFailed, resizeFailed, dropped>>
    /\ UNCHANGED <<deletedOk, created, written>>

\* CrInit without the call of InitializeQueue: the id is drawn and the insert
\* follows.
CrInitNoQueue(p, max) ==
    /\ pc[p] = "cr_init"
    /\ nextId' = nextId + 1
    /\ SetFrame(p, [frame[p] EXCEPT !.id = nextId, !.max = max, !.hasMax = TRUE])
    /\ Goto(p, "cr_insert")
    /\ UNCHANGED <<catalog, queues, nextCall, mu, rlock, opened,
                   delFailed, resizeFailed, dropped, deletedOk, created, written>>

\* newID := s.idGenerator.ID(); InitializeQueue(newID, MaxQueueSizeBytes).
CrInit(p, max) ==
    /\ pc[p] = "cr_init"
    /\ nextId' = nextId + 1
    /\ \/ /\ SetQueues(QInitializeQueue(queues, nextId, max))
          /\ SetFrame(p, [frame[p] EXCEPT !.id = nextId, !.max = max,
                                          !.hasMax = TRUE])
          /\ Goto(p, "cr_insert")
       \/ /\ SetFrame(p, [frame[p] EXCEPT !.id = nextId, !.max = max,
                                          !.hasMax = TRUE, !.ret = "QueueErr"])
          /\ Goto(p, "cr_ret")
          /\ UNCHANGED <<queues, dropped, delFailed>>
    /\ UNCHANGED <<catalog, nextCall, mu, rlock, opened,
                   resizeFailed>>
    /\ UNCHANGED <<deletedOk, created, written>>

\* CrInsert with cleanupQueue() left out of the error paths: the insert's
\* error is returned at once.
CrInsertNoCleanup(p, org, remoteOk) ==
    /\ pc[p] = "cr_insert"
    /\ \/ /\ remoteOk
          /\ catalog' = (frame[p].id :> Row(org, frame[p].bucket, frame[p].max))
                          @@ catalog
          /\ SetFrame(p, [frame[p] EXCEPT !.ret = "ok"])
       \/ /\ ~remoteOk
          /\ SetFrame(p, [frame[p] EXCEPT !.insErr = "RemoteNotFound",
                                          !.ret = "RemoteNotFound"])
          /\ UNCHANGED catalog
       \/ /\ SetFrame(p, [frame[p] EXCEPT !.insErr = "Internal",
                                          !.ret = "Internal"])
          /\ UNCHANGED catalog
    /\ Goto(p, "cr_ret")
    /\ UNCHANGED <<queues, nextId, nextCall, mu, rlock, opened, delFailed,
                   resizeFailed, dropped, deletedOk, written>>
    /\ created' = AsCreated(Restrict(catalog', DOMAIN catalog' \ DOMAIN catalog)) @@ created

\* INSERT ... RETURNING: the row is written, or remote_id violates its
\* foreign key, or the statement fails otherwise (ToSql, constraint, I/O).
CrInsert(p, org, remoteOk) ==
    /\ pc[p] = "cr_insert"
    /\ \/ /\ remoteOk
          /\ catalog' = (frame[p].id :> Row(org, frame[p].bucket, frame[p].max))
                          @@ catalog
          /\ SetFrame(p, [frame[p] EXCEPT !.ret = "ok"])
          /\ Goto(p, "cr_ret")
       \/ /\ ~remoteOk
          /\ SetFrame(p, [frame[p] EXCEPT !.insErr = "RemoteNotFound"])
          /\ Goto(p, "cr_cleanup")
          /\ UNCHANGED catalog
       \/ /\ SetFrame(p, [frame[p] EXCEPT !.insErr = "Internal"])
          /\ Goto(p, "cr_cleanup")
          /\ UNCHANGED catalog
    /\ UNCHANGED <<queues, nextId, nextCall, mu, rlock, opened, delFailed, resizeFailed, dropped>>
    /\ UNCHANGED <<deletedOk, written>>
    /\ created' = AsCreated(Restrict(catalog', DOMAIN catalog' \ DOMAIN catalog)) @@ created

\* cleanupQueue(): DeleteQueue(newID), its error logged only; then the
\* insert's error is returned.
CrCleanup(p) ==
    /\ pc[p] = "cr_cleanup"
    /\ \/ /\ SetQueues(QDeleteQueue(queues, frame[p].id))
          /\ SetFrame(p, [frame[p] EXCEPT
                 !.log = @ \cup {Invocation(frame[p].id, <<>>, 0, TRUE)},
                 !.ncalls = @ + 1, !.ret = frame[p].insErr])
       \/ /\ delFailed' = delFailed \cup {frame[p].id}
          /\ SetFrame(p, [frame[p] EXCEPT
                 !.log = @ \cup {Invocation(frame[p].id, <<>>, 0, FALSE)},
                 !.ncalls = @ + 1, !.ret = frame[p].insErr])
          /\ UNCHANGED <<queues, dropped>>
    /\ Goto(p, "cr_ret")
    /\ UNCHANGED <<catalog, nextId, nextCall, mu, rlock, opened, resizeFailed>>
    /\ UNCHANGED <<deletedOk, created, written>>

\* return: the deferred s.store.Mu.Unlock() and s.bucketService.RUnlock().
CrReturn(p) ==
    /\ pc[p] = "cr_ret"
    /\ mu' = None
    /\ rlock' = rlock \ {p}
    /\ Goto(p, "idle")
    /\ SetFrame(p, NoFrame)
    /\ UNCHANGED <<catalog, queues, nextId, nextCall, opened, delFailed, resizeFailed, dropped>>
    /\ UNCHANGED <<deletedOk, created, written>>

\* ------------------------------------------------------ UpdateReplication

\* UpLock with a Lock() that does not wait: the caller goes on whoever holds
\* the mutex.
UpLockNoWait(p) ==
    /\ opened
    /\ pc[p] = "idle"
    /\ mu' = p
    /\ Goto(p, "up_exec")
    /\ SetFrame(p, [NoFrame EXCEPT !.name = "UpdateReplication"])
    /\ UNCHANGED <<catalog, queues, nextId, nextCall, rlock, opened,
                   delFailed, resizeFailed, dropped>>
    /\ UNCHANGED <<deletedOk, created, written>>

\* A caller invokes UpdateReplication: s.store.Mu.Lock() returns once the mutex
\* is free.
UpLock(p) ==
    /\ opened
    /\ pc[p] = "idle"
    /\ mu = None
    /\ mu' = p
    /\ Goto(p, "up_exec")
    /\ SetFrame(p, [NoFrame EXCEPT !.name = "UpdateReplication"])
    /\ UNCHANGED <<catalog, queues, nextId, nextCall, rlock, opened,
                   delFailed, resizeFailed, dropped>>
    /\ UNCHANGED <<deletedOk, created, written>>

\* UpdateReplication called with the mutex held: the caller waits in Lock().
UpBlocked(p) == Blocked(p, "UpdateReplication", "up_lock")

\* The Lock() of a waiting UpdateReplication returns.
UpAcquire(p) == Acquire(p, "up_lock", "up_exec")

\* UpExec with the resize left out: a request that sets max_queue_size_bytes
\* goes from the UPDATE straight to CurrentQueueSizes.
UpExecNoResize(p, id, hasMax, max, remoteOk) ==
    /\ pc[p] = "up_exec"
    /\ LET g == [frame[p] EXCEPT !.id = id]
           f == [g EXCEPT !.hasMax = hasMax, !.max = IF hasMax THEN max ELSE 0]
       IN  \/ /\ id \notin DOMAIN catalog
              /\ SetFrame(p, [g EXCEPT !.ret = "NotFound"])
              /\ Goto(p, "up_ret")
              /\ UNCHANGED catalog
           \/ /\ id \in DOMAIN catalog
              /\ catalog' = IF hasMax THEN [catalog EXCEPT ![id].max = max]
                            ELSE catalog
              /\ Goto(p, "up_sizes")
              /\ SetFrame(p, f)
    /\ UNCHANGED <<queues, nextId, nextCall, mu, rlock, opened, delFailed,
                   resizeFailed, dropped, deletedOk, written>>
    /\ created' = NoteUpdates(created, catalog, catalog')

\* UPDATE replications SET ... WHERE id = ? RETURNING ...  The request sets
\* max_queue_size_bytes (hasMax) or leaves it nil, and names a remote that
\* exists or one that does not (remoteOk).
UpExec(p, id, hasMax, max, remoteOk) ==
    /\ pc[p] = "up_exec"
    /\ LET g == [frame[p] EXCEPT !.id = id]
           f == [g EXCEPT !.hasMax = hasMax, !.max = IF hasMax THEN max ELSE 0]
       IN  \/ /\ id \notin DOMAIN catalog
              /\ SetFrame(p, [g EXCEPT !.ret = "NotFound"])
              /\ Goto(p, "up_ret")
              /\ UNCHANGED catalog
           \/ /\ id \in DOMAIN catalog
              /\ ~remoteOk
              /\ SetFrame(p, [g EXCEPT !.ret = "RemoteNotFound"])
              /\ Goto(p, "up_ret")
              /\ UNCHANGED catalog
           \/ /\ SetFrame(p, [g EXCEPT !.ret = "Internal"])
              /\ Goto(p, "up_ret")
              /\ UNCHANGED catalog
           \/ /\ id \in DOMAIN catalog
              /\ remoteOk
              /\ catalog' = IF hasMax THEN [catalog EXCEPT ![id].max = max]
                            ELSE catalog
              /\ Goto(p, IF hasMax THEN "up_resize" ELSE "up_sizes")
              /\ SetFrame(p, f)
    /\ UNCHANGED <<queues, nextId, nextCall, mu, rlock, opened, delFailed, resizeFailed, dropped>>
    /\ created' = NoteUpdates(created, catalog, catalog')
    /\ UNCHANGED <<deletedOk, written>>

\* UpResize that undoes the UPDATE when UpdateMaxQueueSize fails: the row
\* goes back to the bound of its queue.
UpResizeRollback(p) ==
    /\ pc[p] = "up_resize"
    /\ \/ /\ frame[p].id \in DOMAIN queues
          /\ SetQueues(QUpdateMaxQueueSize(queues, frame[p].id, frame[p].max))
          /\ resizeFailed' = resizeFailed \ {frame[p].id}
          /\ Goto(p, "up_sizes")
          /\ UNCHANGED <<frame, catalog>>
       \/ /\ frame[p].id \in DOMAIN queues
          /\ catalog' = [catalog EXCEPT ![frame[p].id].max = queues[frame[p].id].max]
          /\ SetFrame(p, [frame[p] EXCEPT !.ret = "QueueErr"])
          /\ Goto(p, "up_ret")
          /\ UNCHANGED <<queues, dropped, delFailed, resizeFailed>>
    /\ UNCHANGED <<nextId, nextCall, mu, rlock, opened>>
    /\ UNCHANGED <<deletedOk, created, written>>

\* UpdateMaxQueueSize(id, *request.MaxQueueSizeBytes): on error the warning
\* is logged and the error returned, the row already updated.
UpResize(p) ==
    /\ pc[p] = "up_resize"
    /\ \/ /\ frame[p].id \in DOMAIN queues
          /\ SetQueues(QUpdateMaxQueueSize(queues, frame[p].id, frame[p].max))
          /\ resizeFailed' = resizeFailed \ {frame[p].id}
          /\ Goto(p, "up_sizes")
          /\ UNCHANGED frame
       \/ /\ resizeFailed' = resizeFailed \cup {frame[p].id}
          /\ SetFrame(p, [frame[p] EXCEPT !.ret = "QueueErr"])
          /\ Goto(p, "up_ret")
          /\ UNCHANGED <<queues, dropped, delFailed>>
    /\ UNCHANGED <<catalog, nextId, nextCall, mu, rlock, opened>>
    /\ UNCHANGED <<deletedOk, created, written>>

\* CurrentQueueSizes([]platform.ID{r.ID}), its error returned.
UpSizes(p) ==
    /\ pc[p] = "up_sizes"
    /\ \E ok \in BOOLEAN :
          SetFrame(p, [frame[p] EXCEPT !.ret = IF ok THEN "ok" ELSE "QueueErr"])
    /\ Goto(p, "up_ret")
    /\ UNCHANGED <<catalog, queues, nextId, nextCall, mu, rlock,
                   opened, delFailed, resizeFailed, dropped>>
    /\ UNCHANGED <<deletedOk, created, written>>

\* UpReturn without the deferred Unlock: the call returns holding the mutex.
UpReturnNoUnlock(p) ==
    /\ pc[p] = "up_ret"
    /\ Goto(p, "idle")
    /\ SetFrame(p, NoFrame)
    /\ UNCHANGED <<catalog, queues, nextId, nextCall, mu, rlock, opened, delFailed, resizeFailed, dropped>>
    /\ UNCHANGED <<deletedOk, created, written>>

\* return: the deferred s.store.Mu.Unlock() runs.
UpReturn(p) ==
    /\ pc[p] = "up_ret"
    /\ mu' = None
    /\ Goto(p, "idle")
    /\ SetFrame(p, NoFrame)
    /\ UNCHANGED <<catalog, queues, nextId, nextCall, rlock, opened, delFailed, resizeFailed, dropped>>
    /\ UNCHANGED <<deletedOk, created, written>>

\* ------------------------------------------------------ DeleteReplication

\* A caller invokes DeleteReplication: s.store.Mu.Lock() returns once the mutex
\* is free.
DrLock(p) ==
    /\ opened
    /\ pc[p] = "idle"
    /\ mu = None
    /\ mu' = p
    /\ Goto(p, "dr_exec")
    /\ SetFrame(p, [NoFrame EXCEPT !.name = "DeleteReplication"])
    /\ UNCHANGED <<catalog, queues, nextId, nextCall, rlock, opened,
                   delFailed, resizeFailed, dropped>>
    /\ UNCHANGED <<deletedOk, created, written>>

\* DeleteReplication called with the mutex held: the caller waits in Lock().
DrBlocked(p) == Blocked(p, "DeleteReplication", "dr_lock")

\* The Lock() of a waiting DeleteReplication returns.
DrAcquire(p) == Acquire(p, "dr_lock", "dr_exec")

\* DrExec taking sql.ErrNoRows for success: a delete of an id without a row
\* goes on to DeleteQueue.
DrExecIdempotent(p, id) ==
    /\ pc[p] = "dr_exec"
    /\ catalog' = Restrict(catalog, DOMAIN catalog \ {id})
    /\ resizeFailed' = resizeFailed \ {id}
    /\ Goto(p, "dr_queue")
    /\ SetFrame(p, [frame[p] EXCEPT !.id = id])
    /\ UNCHANGED <<queues, nextId, nextCall, mu, rlock, opened, delFailed,
                   dropped, deletedOk>>
    /\ created' = Restrict(created, DOMAIN created \cap DOMAIN catalog')
    /\ written' = written \cap DOMAIN catalog'

\* DrExec in the opposite order: the queue of the id is removed first and the
\* row is still there when the step ends.
DrExecQueueFirst(p, id) ==
    /\ pc[p] = "dr_exec"
    /\ \/ /\ id \in DOMAIN catalog
          /\ SetQueues(QDeleteQueue(queues, id))
          /\ Goto(p, "dr_queue")
          /\ SetFrame(p, [frame[p] EXCEPT !.id = id])
       \/ /\ id \notin DOMAIN catalog
          /\ SetFrame(p, [frame[p] EXCEPT !.id = id, !.ret = "NotFound"])
          /\ Goto(p, "dr_ret")
          /\ UNCHANGED <<queues, dropped, delFailed>>
    /\ UNCHANGED <<catalog, nextId, nextCall, mu, rlock, opened, resizeFailed>>
    /\ UNCHANGED <<deletedOk, created, written>>

\* DrExec that takes sql.ErrNoRows for success: with no row of the id the
\* call goes on to DeleteQueue.
DrExecNoRowsOk(p, id) ==
    /\ pc[p] = "dr_exec"
    /\ \/ /\ id \in DOMAIN catalog
          /\ catalog' = Restrict(catalog, DOMAIN catalog \ {id})
          /\ resizeFailed' = resizeFailed \ {id}
          /\ Goto(p, "dr_queue")
          /\ SetFrame(p, [frame[p] EXCEPT !.id = id])
       \/ /\ id \notin DOMAIN catalog
          /\ SetFrame(p, [frame[p] EXCEPT !.id = id])
          /\ Goto(p, "dr_queue")
          /\ UNCHANGED <<catalog, resizeFailed>>
    /\ UNCHANGED <<queues, nextId, nextCall, mu, rlock, opened, delFailed, dropped>>
    /\ UNCHANGED deletedOk
    /\ created' = Restrict(created, DOMAIN created \cap DOMAIN catalog')
    /\ written' = written \cap DOMAIN catalog'

\* DELETE FROM replications WHERE id = ? RETURNING id
DrExec(p, id) ==
    /\ pc[p] = "dr_exec"
    /\ \/ /\ id \in DOMAIN catalog
          /\ catalog' = Restrict(catalog, DOMAIN catalog \ {id})
          /\ resizeFailed' = resizeFailed \ {id}
          /\ Goto(p, "dr_queue")
          /\ SetFrame(p, [frame[p] EXCEPT !.id = id])
       \/ /\ id \notin DOMAIN catalog
          /\ SetFrame(p, [frame[p] EXCEPT !.id = id, !.ret = "NotFound"])
          /\ Goto(p, "dr_ret")
          /\ UNCHANGED <<catalog, resizeFailed>>
       \/ /\ SetFrame(p, [frame[p] EXCEPT !.id = id, !.ret = "Internal"])
          /\ Goto(p, "dr_ret")
          /\ UNCHANGED <<catalog, resizeFailed>>
    /\ UNCHANGED <<queues, nextId, nextCall, mu, rlock, opened, delFailed, dropped>>
    /\ UNCHANGED deletedOk
    /\ created' = Restrict(created, DOMAIN created \cap DOMAIN catalog')
    /\ written' = written \cap DOMAIN catalog'

\* DrQueue with DeleteQueue's error logged instead of returned.
DrQueueIgnoreErr(p) ==
    /\ pc[p] = "dr_queue"
    /\ \/ /\ SetQueues(QDeleteQueue(queues, frame[p].id))
          /\ SetFrame(p, [frame[p] EXCEPT
                 !.log = @ \cup {Invocation(frame[p].id, <<>>, 0, TRUE)},
                 !.ncalls = @ + 1, !.ret = "ok"])
       \/ /\ delFailed' = delFailed \cup ({frame[p].id} \cap DOMAIN queues)
          /\ SetFrame(p, [frame[p] EXCEPT
                 !.log = @ \cup {Invocation(frame[p].id, <<>>, 0, FALSE)},
                 !.ncalls = @ + 1, !.ret = "ok"])
          /\ UNCHANGED <<queues, dropped>>
    /\ Goto(p, "dr_ret")
    /\ UNCHANGED <<catalog, nextId, nextCall, mu, rlock, opened, resizeFailed,
                   deletedOk, created, written>>

\* DeleteQueue(id), its error returned.
DrQueue(p) ==
    /\ pc[p] = "dr_queue"
    /\ \/ /\ SetQueues(QDeleteQueue(queues, frame[p].id))
          /\ SetFrame(p, [frame[p] EXCEPT
                 !.log = @ \cup {Invocation(frame[p].id, <<>>, 0, TRUE)},
                 !.ncalls = @ + 1, !.ret = "ok"])
       \/ /\ delFailed' = delFailed \cup ({frame[p].id} \cap DOMAIN queues)
          /\ SetFrame(p, [frame[p] EXCEPT
                 !.log = @ \cup {Invocation(frame[p].id, <<>>, 0, FALSE)},
                 !.ncalls = @ + 1, !.ret = "QueueErr"])
          /\ UNCHANGED <<queues, dropped>>
    /\ Goto(p, "dr_ret")
    /\ UNCHANGED <<catalog, nextId, nextCall, mu, rlock, opened, resizeFailed>>
    /\ UNCHANGED <<deletedOk, created, written>>

DrReturn(p) ==
    /\ pc[p] = "dr_ret"
    /\ mu' = None
    /\ Goto(p, "idle")
    /\ SetFrame(p, NoFrame)
    /\ UNCHANGED <<catalog, queues, nextId, nextCall, rlock, opened, delFailed, resizeFailed, dropped>>
    /\ deletedOk' = IF frame[p].ret = "ok" THEN deletedOk \cup {frame[p].id}
                              ELSE deletedOk
    /\ UNCHANGED <<created, written>>

\* ----------------------------------------------- DeleteBucketReplications

\* A caller invokes DeleteBucketReplications: s.store.Mu.Lock() returns once the mutex
\* is free.
DbLock(p) ==
    /\ opened
    /\ pc[p] = "idle"
    /\ mu = None
    /\ mu' = p
    /\ Goto(p, "db_exec")
    /\ SetFrame(p, [NoFrame EXCEPT !.name = "DeleteBucketReplications"])
    /\ UNCHANGED <<catalog, queues, nextId, nextCall, rlock, opened,
                   delFailed, resizeFailed, dropped>>
    /\ UNCHANGED <<deletedOk, created, written>>

\* DeleteBucketReplications called with the mutex held: the caller waits in Lock().
DbBlocked(p) == Blocked(p, "DeleteBucketReplications", "db_lock")

\* The Lock() of a waiting DeleteBucketReplications returns.
DbAcquire(p) == Acquire(p, "db_lock", "db_exec")

\* DELETE FROM replications WHERE local_bucket_id = ? RETURNING id
DbExec(p, bucket) ==
    /\ pc[p] = "db_exec"
    /\ \/ /\ catalog' = Restrict(catalog, DOMAIN catalog \ BucketIds(catalog, bucket))
          /\ SetFrame(p, [frame[p] EXCEPT !.bucket = bucket,
                 !.ids = BucketIds(catalog, bucket),
                 !.pending = BucketIds(catalog, bucket)])
          /\ resizeFailed' = resizeFailed \ BucketIds(catalog, bucket)
          /\ Goto(p, "db_loop")
       \/ /\ SetFrame(p, [frame[p] EXCEPT !.bucket = bucket, !.ret = "Internal"])
          /\ Goto(p, "db_ret")
          /\ UNCHANGED <<catalog, resizeFailed>>
    /\ UNCHANGED <<queues, nextId, nextCall, mu, rlock, opened, delFailed, dropped>>
    /\ UNCHANGED deletedOk
    /\ created' = Restrict(created, DOMAIN created \cap DOMAIN catalog')
    /\ written' = written \cap DOMAIN catalog'

\* The next id of deleted, in the order the rows come back (by id).
NextPending(S) == CHOOSE i \in S : \A j \in S : i <= j

\* DbLoop leaving the loop after its first turn: only the first deleted id
\* has its queue deleted.
DbLoopFirstOnly(p, decodes) ==
    /\ pc[p] = "db_loop"
    /\ IF frame[p].pending = {}
       THEN /\ SetFrame(p, [frame[p] EXCEPT
                   !.ret = IF frame[p].errOccurred THEN "Aggregate" ELSE "ok"])
            /\ Goto(p, "db_ret")
            /\ UNCHANGED <<queues, dropped, delFailed>>
       ELSE LET id == NextPending(frame[p].pending)
            IN  /\ \/ /\ SetQueues(QDeleteQueue(queues, id))
                      /\ SetFrame(p, [frame[p] EXCEPT
                             !.pending = {},
                             !.log = @ \cup {Invocation(id, <<>>, 0, TRUE)},
                             !.ncalls = @ + 1])
                   \/ /\ delFailed' = delFailed \cup ({id} \cap DOMAIN queues)
                      /\ SetFrame(p, [frame[p] EXCEPT
                             !.pending = {},
                             !.log = @ \cup {Invocation(id, <<>>, 0, FALSE)},
                             !.ncalls = @ + 1, !.errOccurred = TRUE])
                      /\ UNCHANGED <<queues, dropped>>
                /\ UNCHANGED pc
    /\ UNCHANGED <<catalog, nextId, nextCall, mu, rlock, opened, resizeFailed,
                   deletedOk, created, written>>

\* One turn of the loop over deleted.  IDFromString(replication) decodes the
\* id the row came back with (decodes) or returns a nil id and an error; the
\* error is logged and sets errOccurred, and the turn goes on to
\* DeleteQueue(*id), which with a nil id is a nil pointer dereference: the
\* call panics, its deferred Unlock runs, and the ids still pending are left.
\* With an id, DeleteQueue(*id); its error is logged and sets errOccurred.
\* After the last turn the aggregate error or nil.
DbLoop(p, decodes) ==
    /\ pc[p] = "db_loop"
    /\ IF frame[p].pending = {}
       THEN /\ SetFrame(p, [frame[p] EXCEPT
                   !.ret = IF frame[p].errOccurred THEN "Aggregate" ELSE "ok"])
            /\ Goto(p, "db_ret")
            /\ UNCHANGED <<queues, dropped, delFailed>>
       ELSE IF ~decodes
       THEN /\ SetFrame(p, [frame[p] EXCEPT !.errOccurred = TRUE,
                                            !.ret = "panic"])
            /\ Goto(p, "db_ret")
            /\ UNCHANGED <<queues, dropped, delFailed>>
       ELSE LET id == NextPending(frame[p].pending)
            IN  /\ \/ /\ SetQueues(QDeleteQueue(queues, id))
                      /\ SetFrame(p, [frame[p] EXCEPT
                             !.pending = @ \ {id},
                             !.log = @ \cup {Invocation(id, <<>>, 0, TRUE)},
                             !.ncalls = @ + 1])
                   \/ /\ delFailed' = delFailed \cup ({id} \cap DOMAIN queues)
                      /\ SetFrame(p, [frame[p] EXCEPT
                             !.pending = @ \ {id},
                             !.log = @ \cup {Invocation(id, <<>>, 0, FALSE)},
                             !.ncalls = @ + 1, !.errOccurred = TRUE])
                      /\ UNCHANGED <<queues, dropped>>
                /\ UNCHANGED pc
    /\ UNCHANGED <<catalog, nextId, nextCall, mu, rlock, opened, resizeFailed>>
    /\ UNCHANGED <<deletedOk, created, written>>

DbReturn(p) ==
    /\ pc[p] = "db_ret"
    /\ mu' = None
    /\ Goto(p, "idle")
    /\ SetFrame(p, NoFrame)
    /\ UNCHANGED <<catalog, queues, nextId, nextCall, rlock, opened, delFailed, resizeFailed, dropped>>
    /\ UNCHANGED <<deletedOk, created, written>>

\* ------------------------------------------------------------ WritePoints

\* The WritePoints calls that have returned: those called and no longer run
\* by any caller.
ReturnedCalls ==
    {c \in 1..(nextCall - 1) : \A q \in Procs : frame[q].call # c}

\* WpSelect behind the mutex of the mutations: the call waits for
\* s.store.Mu and takes it before its SELECT.
WpSelectLocked(p, org, bucket, pts) ==
    /\ opened
    /\ pc[p] = "idle"
    /\ nextCall <= MaxCalls
    /\ mu = None
    /\ mu' = p
    /\ nextCall' = nextCall + 1
    /\ LET f == [NoFrame EXCEPT !.name = "WritePoints", !.org = org,
                                !.bucket = bucket, !.pts = pts, !.call = nextCall,
                                !.prior = ReturnedCalls]
       IN  /\ SetFrame(p, [f EXCEPT !.ids = MatchingIds(catalog, org, bucket)])
           /\ Goto(p, IF MatchingIds(catalog, org, bucket) = {}
                      THEN "wp_local" ELSE "wp_tasks")
    /\ UNCHANGED <<catalog, queues, nextId, rlock, opened,
                   delFailed, resizeFailed, dropped>>
    /\ UNCHANGED <<deletedOk, created, written>>

\* A caller invokes WritePoints; its first statement, taking no lock:
\* SELECT id ... WHERE org_id = ? AND local_bucket_id = ?  prior is the
\* model's note of the calls that had returned before this one was called.
WpSelect(p, org, bucket, pts) ==
    /\ opened
    /\ pc[p] = "idle"
    /\ nextCall <= MaxCalls
    /\ nextCall' = nextCall + 1
    /\ LET f == [NoFrame EXCEPT !.name = "WritePoints", !.org = org,
                                !.bucket = bucket, !.pts = pts, !.call = nextCall,
                                !.prior = ReturnedCalls]
       IN  \/ /\ SetFrame(p, [f EXCEPT !.ids = MatchingIds(catalog, org, bucket)])
              /\ Goto(p, IF MatchingIds(catalog, org, bucket) = {}
                         THEN "wp_local" ELSE "wp_tasks")
           \/ /\ SetFrame(p, [f EXCEPT !.ret = "Internal"])
              /\ Goto(p, "wp_ret")
    /\ UNCHANGED <<catalog, queues, nextId, mu, rlock, opened,
                   delFailed, resizeFailed, dropped>>
    /\ UNCHANGED <<deletedOk, created, written>>

\* len(ids) == 0: return s.localWriter.WritePoints(...)
WpLocal(p) ==
    /\ pc[p] = "wp_local"
    /\ \/ SetFrame(p, [frame[p] EXCEPT !.lres = "ok", !.ret = "ok"])
       \/ SetFrame(p, [frame[p] EXCEPT !.lres = "err", !.ret = "LocalWriteErr"])
    /\ Goto(p, "wp_ret")
    /\ UNCHANGED <<catalog, queues, nextId, nextCall, mu, rlock, opened,
                   delFailed, resizeFailed, dropped>>
    /\ UNCHANGED <<deletedOk, created, written>>

\* errgroup.Group keeps the first non-nil error of its tasks.
FirstErr(gerr, err) == IF gerr = "" THEN err ELSE gerr

\* WpTasks with egroup.Wait()'s error dropped: the fan-out starts whatever
\* the two tasks returned.
WpTasksIgnoreErr(p, lok, sok, lfirst) ==
    /\ pc[p] = "wp_tasks"
    /\ SetFrame(p, [frame[p] EXCEPT
           !.lres = IF lok THEN "ok" ELSE "err",
           !.sres = IF sok THEN "ok" ELSE "err",
           !.buf = IF sok THEN Gzip(LineProtocol(frame[p].pts)) ELSE <<>>,
           !.pending = frame[p].ids])
    /\ Goto(p, "wp_fanout")
    /\ UNCHANGED <<catalog, queues, nextId, nextCall, mu, rlock, opened,
                   delFailed, resizeFailed, dropped, deletedOk, created, written>>

\* WpTasks with gzw.Close() left out: buf holds the lines without the gzip
\* trailer.
WpTasksPlainBuf(p, lok, sok, lfirst) ==
    /\ pc[p] = "wp_tasks"
    /\ LET lerr == IF lok THEN "" ELSE "LocalWriteErr"
           serr == IF sok THEN "" ELSE "SerializeErr"
           gerr == IF lfirst THEN FirstErr(FirstErr("", lerr), serr)
                   ELSE FirstErr(FirstErr("", serr), lerr)
           f == [frame[p] EXCEPT
                    !.lres = IF lok THEN "ok" ELSE "err",
                    !.sres = IF sok THEN "ok" ELSE "err",
                    !.buf = IF sok THEN <<"gzhdr">> \o LineProtocol(frame[p].pts)
                            ELSE <<>>,
                    !.gerr = gerr]
       IN  IF gerr # ""
           THEN /\ SetFrame(p, [f EXCEPT !.ret = gerr])
                /\ Goto(p, "wp_ret")
           ELSE /\ SetFrame(p, [f EXCEPT !.pending = frame[p].ids])
                /\ Goto(p, "wp_fanout")
    /\ UNCHANGED <<catalog, queues, nextId, nextCall, mu, rlock, opened,
                   delFailed, resizeFailed, dropped, deletedOk, created, written>>

\* WpTasks with the local write left out of the join: the fan-out starts as
\* soon as the serialization has succeeded.
WpTasksLocalUnjoined(p, lok, sok, lfirst) ==
    /\ pc[p] = "wp_tasks"
    /\ LET lerr == IF lok THEN "" ELSE "LocalWriteErr"
           serr == IF sok THEN "" ELSE "SerializeErr"
           gerr == IF lfirst THEN FirstErr(FirstErr("", lerr), serr)
                   ELSE FirstErr(FirstErr("", serr), lerr)
           f == [frame[p] EXCEPT
                    !.lres = IF lok THEN "ok" ELSE "err",
                    !.sres = IF sok THEN "ok" ELSE "err",
                    !.buf = IF sok THEN Gzip(LineProtocol(frame[p].pts)) ELSE <<>>,
                    !.gerr = gerr]
       IN  IF serr # ""
           THEN /\ SetFrame(p, [f EXCEPT !.ret = gerr])
                /\ Goto(p, "wp_ret")
           ELSE /\ SetFrame(p, [f EXCEPT !.pending = frame[p].ids])
                /\ Goto(p, "wp_fanout")
    /\ UNCHANGED <<catalog, queues, nextId, nextCall, mu, rlock, opened,
                   delFailed, resizeFailed, dropped>>
    /\ UNCHANGED <<deletedOk, created, written>>

\* The errgroup: task 1, s.localWriter.WritePoints(...), and task 2, every
\* point's line through gzw into buf and gzw.Close(), run side by side and
\* egroup.Wait() joins them.  Neither task touches state another caller
\* reads, so the region is one step: each task ends nil or with its error
\* (lok, sok), and when both fail either may have failed first (lfirst).
\* The group's error ends the call; otherwise the fan-out starts.
WpTasks(p, lok, sok, lfirst) ==
    /\ pc[p] = "wp_tasks"
    /\ LET lerr == IF lok THEN "" ELSE "LocalWriteErr"
           serr == IF sok THEN "" ELSE "SerializeErr"
           gerr == IF lfirst THEN FirstErr(FirstErr("", lerr), serr)
                   ELSE FirstErr(FirstErr("", serr), lerr)
           f == [frame[p] EXCEPT
                    !.lres = IF lok THEN "ok" ELSE "err",
                    !.sres = IF sok THEN "ok" ELSE "err",
                    !.buf = IF sok THEN Gzip(LineProtocol(frame[p].pts)) ELSE <<>>,
                    !.gerr = gerr]
       IN  IF gerr # ""
           THEN /\ SetFrame(p, [f EXCEPT !.ret = gerr])
                /\ Goto(p, "wp_ret")
           ELSE /\ SetFrame(p, [f EXCEPT !.pending = frame[p].ids])
                /\ Goto(p, "wp_fanout")
    /\ UNCHANGED <<catalog, queues, nextId, nextCall, mu, rlock, opened,
                   delFailed, resizeFailed, dropped>>
    /\ UNCHANGED <<deletedOk, created, written>>

\* WpEnqueue with the enqueue error returned instead of logged: the first
\* failing EnqueueData ends the call with its error, the rest never run.
WpEnqueueAbort(p, id) ==
    /\ pc[p] = "wp_fanout"
    /\ id \in frame[p].pending
    /\ LET r == Rec(frame[p].call, frame[p].buf, Len(frame[p].pts))
       IN  \/ /\ QCanEnqueue(queues, id, r)
              /\ SetQueues(QEnqueueData(queues, id, r))
              /\ SetFrame(p, [frame[p] EXCEPT
                     !.pending = @ \ {id},
                     !.log = @ \cup {Invocation(id, r.data, r.n, TRUE)},
                     !.ncalls = @ + 1])
              /\ UNCHANGED pc
           \/ /\ SetFrame(p, [frame[p] EXCEPT
                     !.pending = {},
                     !.log = @ \cup {Invocation(id, r.data, r.n, FALSE)},
                     !.ncalls = @ + 1, !.ret = "QueueErr"])
              /\ Goto(p, "wp_ret")
              /\ UNCHANGED <<queues, dropped, delFailed>>
    /\ UNCHANGED <<catalog, nextId, nextCall, mu, rlock, opened, resizeFailed,
                   deletedOk>>
    /\ written' = IF queues' # queues THEN written \cup ({id} \cap DOMAIN catalog)
                   ELSE written
    /\ UNCHANGED created

\* WpEnqueue with the record put at the head of the queue instead of its
\* tail.
WpEnqueueFront(p, id) ==
    /\ pc[p] = "wp_fanout"
    /\ id \in frame[p].pending
    /\ LET r == Rec(frame[p].call, frame[p].buf, Len(frame[p].pts))
       IN  \/ /\ QCanEnqueue(queues, id, r)
              /\ SetQueues([queues EXCEPT ![id].recs = <<r>> \o @])
              /\ SetFrame(p, [frame[p] EXCEPT
                     !.pending = @ \ {id},
                     !.log = @ \cup {Invocation(id, r.data, r.n, TRUE)},
                     !.ncalls = @ + 1])
           \/ /\ SetFrame(p, [frame[p] EXCEPT
                     !.pending = @ \ {id},
                     !.log = @ \cup {Invocation(id, r.data, r.n, FALSE)},
                     !.ncalls = @ + 1])
              /\ UNCHANGED <<queues, dropped, delFailed>>
    /\ UNCHANGED <<catalog, nextId, nextCall, mu, rlock, opened, pc, resizeFailed>>
    /\ UNCHANGED deletedOk
    /\ written' = IF queues' # queues THEN written \cup ({id} \cap DOMAIN catalog)
                   ELSE written
    /\ UNCHANGED created

\* One fan-out goroutine: EnqueueData(id, buf.Bytes(), len(points)); its
\* error is logged and goes nowhere.
WpEnqueue(p, id) ==
    /\ pc[p] = "wp_fanout"
    /\ id \in frame[p].pending
    /\ LET r == Rec(frame[p].call, frame[p].buf, Len(frame[p].pts))
       IN  \/ /\ QCanEnqueue(queues, id, r)
              /\ SetQueues(QEnqueueData(queues, id, r))
              /\ SetFrame(p, [frame[p] EXCEPT
                     !.pending = @ \ {id},
                     !.log = @ \cup {Invocation(id, r.data, r.n, TRUE)},
                     !.ncalls = @ + 1])
           \/ /\ SetFrame(p, [frame[p] EXCEPT
                     !.pending = @ \ {id},
                     !.log = @ \cup {Invocation(id, r.data, r.n, FALSE)},
                     !.ncalls = @ + 1])
              /\ UNCHANGED <<queues, dropped, delFailed>>
    /\ UNCHANGED <<catalog, nextId, nextCall, mu, rlock, opened, pc, resizeFailed>>
    /\ UNCHANGED deletedOk
    /\ written' = IF queues' # queues THEN written \cup ({id} \cap DOMAIN catalog)
                   ELSE written
    /\ UNCHANGED created

\* wg.Wait() then return nil.
WpDone(p) ==
    /\ pc[p] = "wp_fanout"
    /\ frame[p].pending = {}
    /\ SetFrame(p, [frame[p] EXCEPT !.ret = "ok"])
    /\ Goto(p, "wp_ret")
    /\ UNCHANGED <<catalog, queues, nextId, nextCall, mu, rlock,
                   opened, delFailed, resizeFailed, dropped>>
    /\ UNCHANGED <<deletedOk, created, written>>

WpReturn(p) ==
    /\ pc[p] = "wp_ret"
    /\ Goto(p, "idle")
    /\ SetFrame(p, NoFrame)
    /\ dropped' = {d \in dropped : d[2] # frame[p].call}
    /\ UNCHANGED <<catalog, queues, nextId, nextCall, mu, rlock,
                   opened, delFailed, resizeFailed>>
    /\ UNCHANGED <<deletedOk, created, written>>

\* ------------------------------------------------------- ListReplications

\* SELECT ... FROM replications WHERE org_id = ? [AND local_bucket_id = ?];
\* bucket is None when filter.LocalBucketID is nil.
\* The model's note of the replications whose CreateReplication has returned:
\* the rows no running CreateReplication has inserted.
Returned ==
    {i \in DOMAIN created :
        \A q \in Procs :
            ~(frame[q].name = "CreateReplication" /\ frame[q].id = i)}

ListedIds(cat, org, bucket) ==
    {i \in DOMAIN cat :
        cat[i].org = org /\ (bucket = None \/ cat[i].bucket = bucket)}

\* ListReplications with the filter carried by a stale read: the rows are
\* those of the catalog before its last insert.
LsSelectStale(p, org, bucket) ==
    /\ opened
    /\ pc[p] = "idle"
    /\ LET f == [NoFrame EXCEPT !.name = "ListReplications", !.org = org,
                     !.bucket = bucket,
                     !.known = Restrict(created, Returned)]
           ids == ListedIds(catalog, org, bucket) \ {nextId - 1}
       IN  IF ids = {}
           THEN /\ SetFrame(p, [f EXCEPT !.ret = "ok"])
                /\ Goto(p, "ls_ret")
           ELSE /\ SetFrame(p, [f EXCEPT !.rows = Restrict(catalog, ids)])
                /\ Goto(p, "ls_sizes")
    /\ UNCHANGED <<catalog, queues, nextId, nextCall, mu, rlock, opened,
                   delFailed, resizeFailed, dropped, deletedOk, created, written>>

\* A caller invokes ListReplications; its first statement, taking no lock,
\* is the SELECT.  No row: the empty list is returned at once.  known is the
\* model's note of the replications whose CreateReplication had returned.
LsSelect(p, org, bucket) ==
    /\ opened
    /\ pc[p] = "idle"
    /\ LET f == [NoFrame EXCEPT !.name = "ListReplications", !.org = org,
                     !.bucket = bucket,
                     !.known = Restrict(created, Returned)]
           ids == ListedIds(catalog, org, bucket)
       IN  \/ /\ ids = {}
              /\ SetFrame(p, [f EXCEPT !.ret = "ok"])
              /\ Goto(p, "ls_ret")
           \/ /\ ids # {}
              /\ SetFrame(p, [f EXCEPT !.rows = Restrict(catalog, ids)])
              /\ Goto(p, "ls_sizes")
           \/ /\ SetFrame(p, [f EXCEPT !.ret = "Internal"])
              /\ Goto(p, "ls_ret")
    /\ UNCHANGED <<catalog, queues, nextId, nextCall, mu, rlock, opened,
                   delFailed, resizeFailed, dropped, deletedOk, created, written>>

\* CurrentQueueSizes(ids), its error returned; each row's
\* CurrentQueueSizeBytes is sizes[id], 0 for an id the map lacks.
LsSizes(p) ==
    /\ pc[p] = "ls_sizes"
    /\ \/ LET sizes == QCurrentQueueSizes(queues, DOMAIN frame[p].rows)
          IN  SetFrame(p, [frame[p] EXCEPT
                  !.result = [i \in DOMAIN frame[p].rows |->
                                 [row |-> frame[p].rows[i],
                                  size |-> IF i \in DOMAIN sizes THEN sizes[i]
                                           ELSE 0]],
                  !.ret = "ok"])
       \/ SetFrame(p, [frame[p] EXCEPT !.ret = "QueueErr"])
    /\ Goto(p, "ls_ret")
    /\ UNCHANGED <<catalog, queues, nextId, nextCall, mu, rlock, opened,
                   delFailed, resizeFailed, dropped, deletedOk, created, written>>

LsReturn(p) ==
    /\ pc[p] = "ls_ret"
    /\ Goto(p, "idle")
    /\ SetFrame(p, NoFrame)
    /\ UNCHANGED <<catalog, queues, nextId, nextCall, mu, rlock, opened,
                   delFailed, resizeFailed, dropped, deletedOk, created, written>>

\* ----------------------------------------------------------- specification

\* Open at process start, and the process stopping.
Lifecycle ==
    \/ \E p \in Procs : StartOpen(p)
    \/ \E p \in Procs : OpenSelect(p)
    \/ \E p \in Procs : OpenStart(p)
    \/ \E p \in Procs : OpenReturn(p)

\* The control plane: every method that mutates the catalog, called by any
\* caller with any request.
Next ==
    \/ Lifecycle
    \/ Crash
    \/ \E p \in Procs : CrRLock(p)
    \/ \E p \in Procs : CrLock(p)
    \/ \E p \in Procs, bucket \in BucketArgs : CrFind(p, bucket)
    \/ \E p \in Procs, max \in MaxSizes : CrInit(p, max)
    \/ \E p \in Procs, org \in Orgs, remoteOk \in BOOLEAN : CrInsert(p, org, remoteOk)
    \/ \E p \in Procs : CrCleanup(p)
    \/ \E p \in Procs : CrReturn(p)
    \/ \E p \in Procs : UpLock(p)
    \/ \E p \in Procs, id \in Ids, hasMax \in BOOLEAN, max \in MaxSizes,
          remoteOk \in BOOLEAN : UpExec(p, id, hasMax, max, remoteOk)
    \/ \E p \in Procs : UpResize(p)
    \/ \E p \in Procs : UpSizes(p)
    \/ \E p \in Procs : UpReturn(p)
    \/ \E p \in Procs : DrLock(p)
    \/ \E p \in Procs, id \in Ids : DrExec(p, id)
    \/ \E p \in Procs : DrQueue(p)
    \/ \E p \in Procs : DrReturn(p)
    \/ \E p \in Procs : DbLock(p)
    \/ \E p \in Procs, bucket \in BucketArgs : DbExec(p, bucket)
    \* the ids CreateReplication wrote decode
    \/ \E p \in Procs : DbLoop(p, TRUE)
    \/ \E p \in Procs : DbReturn(p)

Spec == Init /\ [][Next]_vars

\* The write path: WritePoints from every caller, beside the creates and
\* deletes that change which replications a write fans out to.  Creates
\* here carry one bucket, so that the queues' contents are what varies.
WriteBuckets == {"b1"}

NextWrite ==
    \/ Lifecycle
    \/ \E p \in Procs : CrRLock(p)
    \/ \E p \in Procs : CrLock(p)
    \/ \E p \in Procs, bucket \in WriteBuckets : CrFind(p, bucket)
    \/ \E p \in Procs, max \in MaxSizes : CrInit(p, max)
    \/ \E p \in Procs, org \in Orgs, remoteOk \in BOOLEAN : CrInsert(p, org, remoteOk)
    \/ \E p \in Procs : CrCleanup(p)
    \/ \E p \in Procs : CrReturn(p)
    \/ \E p \in Procs : DrLock(p)
    \/ \E p \in Procs, id \in Ids : DrExec(p, id)
    \/ \E p \in Procs : DrQueue(p)
    \/ \E p \in Procs : DrReturn(p)
    \/ \E p \in Procs, org \in Orgs, bucket \in Buckets, pts \in PointSeqs :
          WpSelect(p, org, bucket, pts)
    \/ \E p \in Procs : WpLocal(p)
    \/ \E p \in Procs, lok \in BOOLEAN, sok \in BOOLEAN, lfirst \in BOOLEAN :
          WpTasks(p, lok, sok, lfirst)
    \/ \E p \in Procs, id \in Ids : WpEnqueue(p, id)
    \/ \E p \in Procs : WpDone(p)
    \/ \E p \in Procs : WpReturn(p)

SpecWrite == Init /\ [][NextWrite]_vars

\* ------------------------------------------------------ properties: writes

\* C1: a WritePoints call that matched at least one replication and whose
\* local write or serialization returned an error returns that error (the
\* local writer's or the serializer's, one that did occur), has invoked
\* EnqueueData on no queue, and has put no record into any queue.
C1_TaskErrorEndsCall ==
    \A p \in Procs :
        (/\ pc[p] = "wp_ret"
         /\ frame[p].ids # {}
         /\ (frame[p].lres = "err" \/ frame[p].sres = "err"))
        => /\ \/ frame[p].ret = "LocalWriteErr" /\ frame[p].lres = "err"
              \/ frame[p].ret = "SerializeErr" /\ frame[p].sres = "err"
           /\ frame[p].ncalls = 0
           /\ frame[p].log = {}
           /\ \A i \in Ids : <<i, frame[p].call>> \notin RecordsOf(queues) \cup dropped

\* C1's case: a call that matched two replications returns the serializer's
\* error, the local write having succeeded.
C1_Witness ==
    \E p \in Procs :
        /\ pc[p] = "wp_ret"
        /\ Cardinality(frame[p].ids) = 2
        /\ frame[p].lres = "ok"
        /\ frame[p].sres = "err"
        /\ frame[p].ret = "SerializeErr"

\* C2: once the local write and the serialization of a WritePoints call have
\* both succeeded, a failed EnqueueData leaves every remaining matched
\* replication still to be enqueued, and the call returns nil having invoked
\* EnqueueData once for each matched replication.
C2_EnqueueErrorsNotReturned ==
    \A p \in Procs :
        (/\ frame[p].name = "WritePoints"
         /\ frame[p].ids # {}
         /\ frame[p].lres = "ok"
         /\ frame[p].sres = "ok")
        => /\ pc[p] \in {"wp_fanout", "wp_ret"}
           /\ frame[p].pending \cup {l.id : l \in frame[p].log} = frame[p].ids
           /\ pc[p] = "wp_ret" =>
                /\ frame[p].ret = "ok"
                /\ frame[p].pending = {}
                /\ frame[p].ncalls = Cardinality(frame[p].ids)

\* C2's case: a call returns nil with one EnqueueData failed and another
\* succeeded.
C2_Witness ==
    \E p \in Procs :
        /\ pc[p] = "wp_ret"
        /\ frame[p].ret = "ok"
        /\ \E l1, l2 \in frame[p].log : ~l1.ok /\ l2.ok /\ l1.id # l2.id

\* C3 as stated: when WritePoints(org, bucket, pts) returns nil, the queue of
\* every replication matching (org, bucket) holds exactly one record of the
\* call, the gzipped buffer with point count len(pts), unless the record was
\* evicted.
C3_Stated ==
    \A p \in Procs :
        (pc[p] = "wp_ret" /\ frame[p].name = "WritePoints" /\ frame[p].ret = "ok")
        => \A i \in MatchingIds(catalog, frame[p].org, frame[p].bucket) :
              \/ <<i, frame[p].call>> \in dropped
              \/ /\ i \in DOMAIN queues
                 /\ \E k \in 1..Len(queues[i].recs) :
                       /\ queues[i].recs[k] =
                             Rec(frame[p].call, Gzip(LineProtocol(frame[p].pts)),
                                 Len(frame[p].pts))
                       /\ \A j \in 1..Len(queues[i].recs) :
                             queues[i].recs[j].call = frame[p].call => j = k

\* C3: when WritePoints(org, bucket, pts) returns nil, EnqueueData has been
\* invoked exactly once for each replication the call's lookup matched, every
\* time with the same gzipped buffer and the point count len(pts); the queue
\* of each replication whose EnqueueData succeeded holds exactly one record of
\* the call, that buffer and count, unless the record was evicted or removed
\* with its queue; a queue whose EnqueueData failed holds none.
C3_OneRecordPerSuccessfulEnqueue ==
    \A p \in Procs :
        (pc[p] = "wp_ret" /\ frame[p].name = "WritePoints" /\ frame[p].ret = "ok")
        => /\ {l.id : l \in frame[p].log} = frame[p].ids
           /\ frame[p].ncalls = Cardinality(frame[p].ids)
           /\ \A l \in frame[p].log :
                 /\ l.data = Gzip(LineProtocol(frame[p].pts))
                 /\ l.n = Len(frame[p].pts)
                 /\ LET held == IF l.id \in DOMAIN queues
                                THEN {k \in 1..Len(queues[l.id].recs) :
                                         queues[l.id].recs[k].call = frame[p].call}
                                ELSE {}
                    IN  /\ ~l.ok => held = {} /\ <<l.id, frame[p].call>> \notin dropped
                        /\ l.ok =>
                             /\ (held = {}) = (<<l.id, frame[p].call>> \in dropped)
                             /\ Cardinality(held) <= 1
                             /\ \A k \in held :
                                   queues[l.id].recs[k] = Rec(frame[p].call, l.data, l.n)

\* C3's case: a call that matched two replications returns nil with both
\* records in their queues.
C3_Witness ==
    \E p \in Procs :
        /\ pc[p] = "wp_ret"
        /\ frame[p].ret = "ok"
        /\ Cardinality(frame[p].ids) = 2
        /\ \A i \in frame[p].ids :
              /\ i \in DOMAIN queues
              /\ \E k \in 1..Len(queues[i].recs) : queues[i].recs[k].call = frame[p].call

\* ---------------------------------------------- properties: control plane

\* C4: when CreateReplication returns a replication, the queue of the id it
\* drew exists under the request's max_queue_size_bytes, and the catalog
\* holds a row of that id with the request's bucket and bound.
C4_CreateLeavesQueueAndRow ==
    \A p \in Procs :
        (pc[p] = "cr_ret" /\ frame[p].ret = "ok")
        => /\ frame[p].id \in DOMAIN queues
           /\ queues[frame[p].id].max = frame[p].max
           /\ frame[p].id \in DOMAIN catalog
           /\ catalog[frame[p].id].max = frame[p].max
           /\ catalog[frame[p].id].bucket = frame[p].bucket
           /\ \A q \in Procs \ {p} : frame[q].id # frame[p].id

\* C4's case: the second id has been created with the smaller bound while
\* the first replication is there.
C4_Witness ==
    \E p \in Procs :
        /\ pc[p] = "cr_ret"
        /\ frame[p].ret = "ok"
        /\ frame[p].id = 2
        /\ frame[p].max = 3
        /\ 1 \in DOMAIN catalog

\* C5 as stated: when the insert of CreateReplication fails, DeleteQueue has
\* been invoked once for the attempted id, the call returns the insert's
\* error, and no queue of that id exists as the call returns.
C5_Stated ==
    \A p \in Procs :
        (pc[p] = "cr_ret" /\ frame[p].insErr # "")
        => /\ frame[p].ncalls = 1
           /\ \E ok \in BOOLEAN :
                 frame[p].log = {Invocation(frame[p].id, <<>>, 0, ok)}
           /\ frame[p].ret = frame[p].insErr
           /\ frame[p].id \notin DOMAIN queues

\* C5: when the insert of CreateReplication fails, DeleteQueue has been
\* invoked once for the attempted id and the call returns the insert's error
\* whatever DeleteQueue returned; the queue of that id is gone as the call
\* returns exactly when that DeleteQueue succeeded.
C5_CleanupInvokedNotReturned ==
    \A p \in Procs :
        (pc[p] = "cr_ret" /\ frame[p].insErr # "")
        => /\ frame[p].ncalls = 1
           /\ \E ok \in BOOLEAN :
                 /\ frame[p].log = {Invocation(frame[p].id, <<>>, 0, ok)}
                 /\ ok = (frame[p].id \notin DOMAIN queues)
           /\ frame[p].ret = frame[p].insErr
           /\ frame[p].ret \in {"RemoteNotFound", "Internal"}
           /\ frame[p].id \notin DOMAIN catalog

\* C5's case: an unknown remote_id; the cleanup has removed the queue.
C5_Witness ==
    \E p \in Procs :
        /\ pc[p] = "cr_ret"
        /\ frame[p].ret = "RemoteNotFound"
        /\ frame[p].log = {Invocation(frame[p].id, <<>>, 0, TRUE)}
        /\ frame[p].id \notin DOMAIN queues

\* C6: when DeleteReplication(id) returns nil, the catalog holds no row of
\* id and no queue of id exists.
C6_DeleteLeavesNeither ==
    \A p \in Procs :
        (pc[p] = "dr_ret" /\ frame[p].ret = "ok")
        => /\ frame[p].id \notin DOMAIN catalog
           /\ frame[p].id \notin DOMAIN queues

\* C6's case: a delete returns nil while another replication stays.
C6_Witness ==
    \E p \in Procs :
        /\ pc[p] = "dr_ret"
        /\ frame[p].ret = "ok"
        /\ frame[p].log = {Invocation(frame[p].id, <<>>, 0, TRUE)}
        /\ DOMAIN catalog # {}
        /\ DOMAIN queues = DOMAIN catalog

C8_OpenReconciles ==
    \A p \in Procs :
        (pc[p] = "op_ret" /\ frame[p].ret = "ok")
        => /\ DOMAIN queues = DOMAIN catalog
           /\ \A i \in DOMAIN catalog :
                 /\ queues[i].max = catalog[i].max
                 /\ i \notin frame[p].ids => queues[i].recs = <<>>

\* C8's case: Open found the directory of an id without a row beside those
\* of the catalog's rows.
C8_Witness ==
    \E p \in Procs :
        /\ pc[p] = "op_ret"
        /\ frame[p].ret = "ok"
        /\ frame[p].ids \ DOMAIN catalog # {}
        /\ DOMAIN catalog # {}

\* C9 as stated: once Open has returned, whenever no caller holds the
\* exclusive lock the ids of the catalog are the ids of the queues.
C9_Stated ==
    (opened /\ mu = None) => DOMAIN catalog = DOMAIN queues

\* C9: once Open has returned, whenever no caller holds the exclusive lock
\* every catalog row has its queue, and every queue without a row is one
\* whose DeleteQueue returned an error.
C9_RowsHaveQueues ==
    (opened /\ mu = None)
    => /\ DOMAIN catalog \subseteq DOMAIN queues
       /\ (DOMAIN queues \ DOMAIN catalog) \subseteq delFailed

\* C9's case: a queue outlives its row after a failed DeleteQueue, beside a
\* replication that has both.
C9_Witness ==
    /\ opened
    /\ mu = None
    /\ \A p \in Procs : pc[p] = "idle"
    /\ DOMAIN catalog # {}
    /\ (DOMAIN queues \ DOMAIN catalog) # {}

\* C10 as stated: while the service runs and no UpdateReplication holds the
\* exclusive lock, every row's max_queue_size_bytes is the bound of its
\* queue.
C10_Stated ==
    (opened /\ (mu = None \/ frame[mu].name # "UpdateReplication"))
    => \A i \in DOMAIN catalog \cap DOMAIN queues : catalog[i].max = queues[i].max

\* C10: while the service runs and no UpdateReplication holds the exclusive
\* lock, every row's max_queue_size_bytes is the bound of its queue, except
\* for a replication whose last UpdateMaxQueueSize returned an error.
C10_BoundFollowsRow ==
    (opened /\ (mu = None \/ frame[mu].name # "UpdateReplication"))
    => \A i \in (DOMAIN catalog \cap DOMAIN queues) \ resizeFailed :
          catalog[i].max = queues[i].max

\* C10's case: one replication resized to the smaller bound, row and queue
\* alike, and another whose resize failed.
C10_Witness ==
    /\ opened
    /\ mu = None
    /\ \E i \in DOMAIN catalog \cap DOMAIN queues :
          /\ i \notin resizeFailed
          /\ catalog[i].max = 3
          /\ queues[i].max = 3
    /\ \E j \in DOMAIN catalog \cap DOMAIN queues \cap resizeFailed :
          catalog[j].max # queues[j].max

\* ------------------------------------------------------- properties: reads

\* The read path: one caller lists while the other creates, updates, deletes
\* and writes once.
ListBuckets == {"b1", None}
ListOrg == "o1"
ListMax == CHOOSE m \in MaxSizes : \A n \in MaxSizes : n <= m
Listers == {"c2"}
Changers == Procs \ Listers

NextList ==
    \/ \E p \in Changers : StartOpen(p)
    \/ \E p \in Changers : OpenSelect(p)
    \/ \E p \in Changers : OpenStart(p)
    \/ \E p \in Changers : OpenReturn(p)
    \/ \E p \in Changers : CrRLock(p)
    \/ \E p \in Changers : CrLock(p)
    \/ \E p \in Changers, bucket \in WriteBuckets : CrFind(p, bucket)
    \/ \E p \in Changers : CrInit(p, ListMax)
    \/ \E p \in Changers, org \in Orgs : CrInsert(p, org, TRUE)
    \/ \E p \in Changers : CrCleanup(p)
    \/ \E p \in Changers : CrReturn(p)
    \/ \E p \in Changers : UpLock(p)
    \/ \E p \in Changers, id \in Ids, max \in MaxSizes : UpExec(p, id, TRUE, max, TRUE)
    \/ \E p \in Changers : UpResize(p)
    \/ \E p \in Changers : UpSizes(p)
    \/ \E p \in Changers : UpReturn(p)
    \/ \E p \in Changers : DrLock(p)
    \/ \E p \in Changers, id \in Ids : DrExec(p, id)
    \/ \E p \in Changers : DrQueue(p)
    \/ \E p \in Changers : DrReturn(p)
    \/ \E p \in Changers, pts \in PointSeqs :
          nextCall = 1 /\ WpSelect(p, ListOrg, "b1", pts)
    \/ \E p \in Changers : WpLocal(p)
    \/ \E p \in Changers : WpTasks(p, TRUE, TRUE, TRUE)
    \/ \E p \in Changers, id \in Ids : WpEnqueue(p, id)
    \/ \E p \in Changers : WpDone(p)
    \/ \E p \in Changers : WpReturn(p)
    \/ \E p \in Listers, bucket \in ListBuckets : LsSelect(p, ListOrg, bucket)
    \/ \E p \in Listers : LsSizes(p)
    \/ \E p \in Listers : LsReturn(p)

SpecList == Init /\ [][NextList]_vars


\* The replications a finished, successful ListReplications of caller p owes
\* its caller: those whose CreateReplication had returned when the call
\* started, in the org and under the bucket filter of the call.
Owed(p) ==
    {i \in DOMAIN frame[p].known :
        /\ frame[p].known[i].row.org = frame[p].org
        /\ frame[p].bucket \in {None, frame[p].known[i].row.bucket}}

ListedOk(p) ==
    /\ pc[p] = "ls_ret"
    /\ frame[p].ret = "ok"

\* C11 as stated: a successful ListReplications returns every replication of
\* its org whose CreateReplication had returned before it started and that
\* has not been deleted, with the attributes it was created with, and with
\* current_queue_size_bytes 0 when nothing was written to it.
C11_Stated ==
    \A p \in Procs :
        ListedOk(p) =>
            \A i \in Owed(p) :
                /\ i \in DOMAIN frame[p].result
                /\ frame[p].result[i].row = frame[p].known[i].row
                /\ (i \in DOMAIN catalog /\ i \notin written)
                       => frame[p].result[i].size = 0

\* C11: a successful ListReplications returns every replication of its org
\* whose CreateReplication had returned before it started and that has not
\* been deleted; the row has the attributes it was created with when no
\* UpdateReplication has changed them since, and current_queue_size_bytes 0
\* when nothing was written to it.
C11_CreatedIsListed ==
    \A p \in Procs :
        ListedOk(p) =>
            \A i \in Owed(p) :
                /\ i \in DOMAIN frame[p].result
                /\ frame[p].result[i].row.org = frame[p].known[i].row.org
                /\ frame[p].result[i].row.bucket = frame[p].known[i].row.bucket
                /\ ~frame[p].known[i].updated
                       => frame[p].result[i].row = frame[p].known[i].row
                /\ (i \in DOMAIN catalog /\ i \notin written)
                       => frame[p].result[i].size = 0

\* C11 case: a list has returned a replication created before it, as it was
\* created and with an empty queue, beside one that has been written to.
C11_Witness ==
    \E p \in Procs :
        /\ ListedOk(p)
        /\ \E i \in Owed(p) :
               /\ ~frame[p].known[i].updated
               /\ frame[p].result[i].row = frame[p].known[i].row
               /\ i \notin written
               /\ frame[p].result[i].size = 0
        /\ \E j \in Owed(p) : frame[p].result[j].size > 0


\* The call numbers of the records of queue i, oldest first.
CallsIn(i) == [k \in 1..Len(queues[i].recs) |-> queues[i].recs[k].call]

\* C12 as stated: in every queue the records stand in the order in which
\* their WritePoints calls were called, whatever the interleaving of the calls.
C12_Stated ==
    \A i \in DOMAIN queues :
        \A k, l \in 1..Len(queues[i].recs) :
            k < l => CallsIn(i)[k] < CallsIn(i)[l]

\* C12: in every queue the record of a running WritePoints call stands after
\* the records of every call that had returned before it was called; calls
\* that overlap may enqueue in either order.
C12_SequentialCallsInOrder ==
    \A p \in Procs, i \in DOMAIN queues :
        \A k, l \in 1..Len(queues[i].recs) :
            (CallsIn(i)[k] = frame[p].call /\ CallsIn(i)[l] \in frame[p].prior)
                => l < k

\* C12 case: a queue holds the record of a returned call and, after it, the
\* record of a call made after that return.
C12_Witness ==
    \E p \in Procs, i \in DOMAIN queues :
        /\ Len(queues[i].recs) = 2
        /\ CallsIn(i)[2] = frame[p].call
        /\ CallsIn(i)[1] \in frame[p].prior

\* ------------------------------------------------- properties: the mutex

\* The positions of a mutation between its s.store.Mu.Lock() and its return.
LockedPcs ==
    {"cr_find", "cr_init", "cr_insert", "cr_cleanup", "cr_ret",
     "up_exec", "up_resize", "up_sizes", "up_ret",
     "dr_exec", "dr_queue", "dr_ret",
     "db_exec", "db_loop", "db_ret"}

InMutation(p) == pc[p] \in LockedPcs

\* C13: at most one CreateReplication, UpdateReplication, DeleteReplication
\* or DeleteBucketReplications is between its lock acquisition and its return,
\* and it holds the mutex; every step of a running service that changes the
\* catalog or a queue is a step of that one call.
C13_MutationsExclusive ==
    /\ [](\A p, q \in Procs : (InMutation(p) /\ InMutation(q)) => p = q)
    /\ [](\A p \in Procs : InMutation(p) => mu = p)
    /\ [][(catalog' # catalog \/ (opened /\ opened' /\ queues' # queues))
              => /\ mu \in Procs
                 /\ InMutation(mu)
                 /\ \A q \in Procs \ {mu} :
                        pc'[q] = pc[q] /\ frame'[q] = frame[q]]_vars

\* C13 case: one caller is inside an UpdateReplication that has written the
\* catalog and not yet resized the queue, the other waits for the mutex in a
\* CreateReplication.
C13_Witness ==
    \E p, q \in Procs :
        /\ pc[p] = "up_resize"
        /\ mu = p
        /\ pc[q] = "cr_lock"

\* ----------------------------------------------- properties: the barrier

\* Caller p runs a WritePoints whose local write and serialization have both
\* returned nil.
BothTasksOk(p) ==
    /\ frame[p].name = "WritePoints"
    /\ frame[p].lres = "ok"
    /\ frame[p].sres = "ok"

\* C14: a caller is in the fan-out, or has invoked EnqueueData at all, only
\* with its local write and its serialization both succeeded; and every
\* record a step adds to a queue is the record of such a call in its fan-out.
C14_EnqueueAfterBothTasks ==
    /\ [](\A p \in Procs :
            (pc[p] = "wp_fanout"
                 \/ (frame[p].name = "WritePoints" /\ frame[p].log # {}))
                => BothTasksOk(p))
    /\ [][\A r \in RecordsOf(queues') \ RecordsOf(queues) :
              \E p \in Procs :
                  /\ pc[p] = "wp_fanout"
                  /\ frame[p].call = r[2]
                  /\ r[1] \in frame[p].pending
                  /\ BothTasksOk(p)]_vars

\* C14 case: a call whose two tasks succeeded has put its record into a queue.
C14_Witness ==
    \E p \in Procs :
        /\ pc[p] = "wp_fanout"
        /\ BothTasksOk(p)
        /\ \E i \in DOMAIN queues : <<i, frame[p].call>> \in RecordsOf(queues)

\* ------------------------------------------ properties: interruptions

RowsHaveQueues == DOMAIN catalog \subseteq DOMAIN queues

\* C15: while the service is open every catalog row has a queue, and no step
\* of any operation, and no crash at any step, takes a state where every
\* row has a queue to one where a row has none; what an interruption leaves
\* is a queue without a row.
C15_NoRowWithoutQueue ==
    /\ [](opened => RowsHaveQueues)
    /\ [][RowsHaveQueues => RowsHaveQueues']_vars

\* C15 case: a crash has interrupted a mutation between its queue call and
\* its catalog write; a queue without a row is on disk beside a replication
\* that has both.
C15_Witness ==
    /\ ~opened
    /\ DOMAIN catalog # {}
    /\ RowsHaveQueues
    /\ (DOMAIN queues \ DOMAIN catalog) \ delFailed # {}

\* ------------------------------------- properties: the order of a create

\* C16: a CreateReplication that returns 'local bucket not found' has drawn
\* no id and invoked nothing on the queue manager, and one that returns
\* InitializeQueue's error has no row of its id; the steps that end in these
\* returns change neither catalog nor queues; and a row enters the catalog
\* only at the insert of a create whose bucket exists and whose queue, of the
\* same id, InitializeQueue has made.
C16_RowOnlyAfterCheckAndQueue ==
    /\ [](\A p \in Procs :
            (pc[p] = "cr_ret" /\ frame[p].ret = "LocalBucketNotFound")
                => /\ frame[p].bucket \notin Buckets
                   /\ frame[p].id = 0
                   /\ frame[p].ncalls = 0)
    /\ [](\A p \in Procs :
            (pc[p] = "cr_ret" /\ frame[p].ret = "QueueErr")
                => /\ frame[p].id \notin DOMAIN catalog
                   /\ frame[p].insErr = "")
    /\ [][\A p \in Procs :
              (pc[p] \in {"cr_find", "cr_init"} /\ pc'[p] = "cr_ret")
                  => /\ catalog' = catalog
                     /\ queues' = queues
                     /\ frame'[p].ret \in {"LocalBucketNotFound", "QueueErr"}]_vars
    /\ [][\A i \in DOMAIN catalog' \ DOMAIN catalog :
              \E p \in Procs :
                  /\ pc[p] = "cr_insert"
                  /\ frame[p].id = i
                  /\ frame[p].bucket \in Buckets
                  /\ catalog'[i].bucket = frame[p].bucket
                  /\ i \in DOMAIN queues
                  /\ queues[i].max = frame[p].max]_vars

\* C16 case: a create is about to return 'local bucket not found' with an
\* earlier replication in the catalog.
C16_Witness ==
    \E p \in Procs :
        /\ pc[p] = "cr_ret"
        /\ frame[p].ret = "LocalBucketNotFound"
        /\ nextId > 1
        /\ DOMAIN catalog # {}

\* --------------------------------------- properties: the bucket delete

\* DeleteBucketReplications over a catalog whose rows may carry an id that
\* IDFromString does not decode, beside the creates that fill it.
NextDecode ==
    \/ Lifecycle
    \/ \E p \in Procs : CrRLock(p)
    \/ \E p \in Procs : CrLock(p)
    \/ \E p \in Procs, bucket \in BucketArgs : CrFind(p, bucket)
    \/ \E p \in Procs, max \in MaxSizes : CrInit(p, max)
    \/ \E p \in Procs, org \in Orgs, remoteOk \in BOOLEAN : CrInsert(p, org, remoteOk)
    \/ \E p \in Procs : CrCleanup(p)
    \/ \E p \in Procs : CrReturn(p)
    \/ \E p \in Procs : DbLock(p)
    \/ \E p \in Procs, bucket \in BucketArgs : DbExec(p, bucket)
    \/ \E p \in Procs, decodes \in BOOLEAN : DbLoop(p, decodes)
    \/ \E p \in Procs : DbReturn(p)

SpecDecode == Init /\ [][NextDecode]_vars

\* C17 as stated: when DeleteBucketReplications has run its DELETE and is
\* about to return, no row of the bucket is left, DeleteQueue has been
\* attempted for every deleted id whatever failed on the way, the result is
\* the aggregated error if anything failed and success otherwise, and with
\* no matching row it is success with no queue call.
C17_Stated ==
    \A p \in Procs :
        (pc[p] = "db_ret" /\ frame[p].ret # "Internal")
        => /\ BucketIds(catalog, frame[p].bucket) = {}
           /\ frame[p].pending = {}
           /\ \A i \in frame[p].ids : \E c \in frame[p].log : c.id = i
           /\ frame[p].ret = IF frame[p].errOccurred THEN "Aggregate" ELSE "ok"
           /\ frame[p].ids = {} => (frame[p].ret = "ok" /\ frame[p].ncalls = 0)

\* C17 case: the first of two deleted ids did not decode; the call ends in
\* the panic with DeleteQueue attempted for neither.
C17_Witness ==
    \E p \in Procs :
        /\ pc[p] = "db_ret"
        /\ frame[p].ret = "panic"
        /\ Cardinality(frame[p].pending) = 2
        /\ frame[p].log = {}

\* ------------------------------------- properties: a failed resize

\* C18: an UpdateReplication that set max_queue_size_bytes and is about to
\* return an error has left the row with the new value, the failing
\* UpdateMaxQueueSize having changed neither catalog nor queue; and when
\* Open returns nil every row's queue, those found on disk and those whose
\* last resize had failed included, is under the bound the row records.
C18_FailedResizeHealedAtOpen ==
    /\ [](\A p \in Procs :
            (pc[p] = "up_ret" /\ frame[p].ret = "QueueErr" /\ frame[p].hasMax)
                => /\ frame[p].id \in DOMAIN catalog
                   /\ catalog[frame[p].id].max = frame[p].max)
    /\ [][\A p \in Procs :
              (pc[p] = "up_resize" /\ pc'[p] = "up_ret")
                  => /\ frame'[p].ret = "QueueErr"
                     /\ catalog' = catalog
                     /\ queues' = queues
                     /\ frame[p].id \in resizeFailed']_vars
    /\ [](\A p \in Procs :
            (pc[p] = "op_ret" /\ frame[p].ret = "ok")
                => /\ resizeFailed \cap DOMAIN catalog = {}
                   /\ \A i \in DOMAIN catalog :
                         /\ i \in DOMAIN queues
                         /\ queues[i].max = catalog[i].max)

\* C18 case: Open has returned nil over a queue it found on disk whose resize
\* to the smaller bound had failed; the queue is now under that bound.
C18_Witness ==
    \E p \in Procs :
        /\ pc[p] = "op_ret"
        /\ frame[p].ret = "ok"
        /\ \E i \in frame[p].diverged \cap frame[p].ids :
               /\ created[i].row.max = 6
               /\ catalog[i].max = 3
               /\ queues[i].max = 3

\* ------------------------------------ properties: the lock-free hot path

\* The positions of a WritePoints call after its SELECT.
WpPcs == {"wp_local", "wp_tasks", "wp_fanout", "wp_ret"}

\* The next step of the WritePoints call caller p runs.
WpStep(p) ==
    \/ WpLocal(p)
    \/ \E lok \in BOOLEAN, sok \in BOOLEAN, lfirst \in BOOLEAN :
          WpTasks(p, lok, sok, lfirst)
    \/ \E id \in Ids : WpEnqueue(p, id)
    \/ WpDone(p)
    \/ WpReturn(p)

\* C19: the caller of a WritePoints never holds the mutex and no step of
\* the call changes its holder; and while another caller holds the mutex
\* inside a mutation, a WritePoints can be called and every step of a
\* running one, up to its return, can be taken with the mutex still held.
C19_WritePointsTakesNoLock ==
    /\ [](\A p \in Procs : frame[p].name = "WritePoints" => mu # p)
    /\ [][\A p \in Procs :
              ((frame[p].name = "WritePoints" \/ frame'[p].name = "WritePoints")
                  /\ (pc'[p] # pc[p] \/ frame'[p] # frame[p]))
                  => mu' = mu]_vars
    /\ [](\A p \in Procs :
            (mu \in Procs \ {p} /\ InMutation(mu))
                => /\ (pc[p] = "idle" /\ nextCall <= MaxCalls)
                       => ENABLED (WpSelect(p, "o1", "b1", <<>>) /\ mu' = mu)
                   /\ pc[p] \in WpPcs => ENABLED (WpStep(p) /\ mu' = mu))

\* C19 case: a WritePoints has put its record into a queue and is about to
\* return nil while the other caller holds the mutex inside a create.
C19_Witness ==
    \E p, q \in Procs :
        /\ pc[p] = "wp_ret"
        /\ frame[p].ret = "ok"
        /\ \E c \in frame[p].log : c.ok
        /\ mu = q
        /\ pc[q] = "cr_insert"

\* ------------------------------------- properties: Open beside mutations

\* Open called at any time, beside CreateReplication and DeleteReplication.
NextOpen ==
    \/ Lifecycle
    \/ \E p \in Procs : OpenRunning(p)
    \/ \E p \in Procs : CrRLock(p)
    \/ \E p \in Procs : CrLock(p)
    \/ \E p \in Procs, bucket \in WriteBuckets : CrFind(p, bucket)
    \/ \E p \in Procs, max \in MaxSizes : CrInit(p, max)
    \/ \E p \in Procs, org \in Orgs, remoteOk \in BOOLEAN : CrInsert(p, org, remoteOk)
    \/ \E p \in Procs : CrCleanup(p)
    \/ \E p \in Procs : CrReturn(p)
    \/ \E p \in Procs : DrLock(p)
    \/ \E p \in Procs, id \in Ids : DrExec(p, id)
    \/ \E p \in Procs : DrQueue(p)
    \/ \E p \in Procs : DrReturn(p)

SpecOpen == Init /\ [][NextOpen]_vars

\* C20 as stated: whatever the interleaving of Open with creates and
\* deletes, once every call has returned each catalog row has a queue and
\* each queue has a row (but for a queue whose DeleteQueue returned an
\* error).
C20_Stated ==
    (opened /\ \A p \in Procs : pc[p] = "idle")
    => /\ DOMAIN catalog \subseteq DOMAIN queues
       /\ (DOMAIN queues \ DOMAIN catalog) \subseteq delFailed

\* C20 case: every call has returned, CreateReplication among them with
\* success, and the row it inserted has no queue.
C20_Witness ==
    /\ opened
    /\ \A p \in Procs : pc[p] = "idle"
    /\ \E i \in DOMAIN created : i \notin DOMAIN queues /\ i \notin deletedOk

\* ------------------------------------- properties: a failed queue delete

\* C21: a DeleteReplication(id) about to return DeleteQueue's error has
\* removed the row of id; a DeleteReplication of an id whose DeleteQueue has
\* failed finds no row, returns NotFound (or the error of a failed statement)
\* with no DeleteQueue call and with catalog and queues as they were; the
\* queue of such an id is on disk without a row, and the only step that
\* takes it away is Open's StartReplicationQueues, after which none is left.
C21_FailedQueueDeleteLeavesOrphan ==
    /\ [](\A p \in Procs :
            (pc[p] = "dr_ret" /\ frame[p].ret = "QueueErr")
                => /\ frame[p].id \notin DOMAIN catalog
                   /\ frame[p].log = {Invocation(frame[p].id, <<>>, 0, FALSE)})
    /\ [](delFailed \subseteq DOMAIN queues \ DOMAIN catalog)
    /\ [][\A p \in Procs :
              (pc[p] = "dr_exec" /\ pc'[p] # "dr_exec" /\ frame'[p].id \in delFailed)
                  => /\ pc'[p] = "dr_ret"
                     /\ frame'[p].ret \in {"NotFound", "Internal"}
                     /\ frame'[p].ncalls = 0
                     /\ catalog' = catalog
                     /\ queues' = queues]_vars
    /\ [][\A i \in delFailed :
              i \notin DOMAIN queues' => \E p \in Procs : pc[p] = "op_start"]_vars
    /\ [](\A p \in Procs :
            (pc[p] = "op_ret" /\ frame[p].ret = "ok") => delFailed = {})

\* C21 case: the retry of a delete whose DeleteQueue had failed is about to
\* return NotFound; the queue is still on disk.
C21_Witness ==
    \E p \in Procs :
        /\ pc[p] = "dr_ret"
        /\ frame[p].ret = "NotFound"
        /\ frame[p].ncalls = 0
        /\ frame[p].id \in delFailed
        /\ frame[p].id \in DOMAIN queues

\* ------------------------------------------ properties: lock discipline

\* A caller invokes a mutation: with the mutex free its Lock() returns at
\* once, with the mutex held it waits.  CreateReplication takes the bucket
\* service's read lock first and then waits for the mutex.
Invoke(p) ==
    \/ CrRLock(p)
    \/ UpLock(p)
    \/ UpBlocked(p)
    \/ DrLock(p)
    \/ DrBlocked(p)
    \/ DbLock(p)
    \/ DbBlocked(p)

\* The Lock() of a waiting caller returns.
LockReturns(p) ==
    \/ CrLock(p)
    \/ UpAcquire(p)
    \/ DrAcquire(p)
    \/ DbAcquire(p)

\* The next statement of the call caller p runs, whatever its request and
\* whatever the stores answer.
Proceed(p) ==
    \/ OpenSelect(p)
    \/ OpenStart(p)
    \/ OpenReturn(p)
    \/ \E bucket \in BucketArgs : CrFind(p, bucket)
    \/ CrInit(p, ListMax)
    \/ \E remoteOk \in BOOLEAN : CrInsert(p, ListOrg, remoteOk)
    \/ CrCleanup(p)
    \/ CrReturn(p)
    \/ \E id \in Ids, hasMax \in BOOLEAN, remoteOk \in BOOLEAN :
          UpExec(p, id, hasMax, ListMax, remoteOk)
    \/ UpResize(p)
    \/ UpSizes(p)
    \/ UpReturn(p)
    \/ \E id \in Ids : DrExec(p, id)
    \/ DrQueue(p)
    \/ DrReturn(p)
    \/ \E bucket \in BucketArgs : DbExec(p, bucket)
    \/ \E decodes \in BOOLEAN : DbLoop(p, decodes)
    \/ DbReturn(p)

NextFair ==
    \/ \E p \in Procs : StartOpen(p)
    \/ \E p \in Procs : Invoke(p)
    \/ \E p \in Procs : LockReturns(p)
    \/ \E p \in Procs : Proceed(p)

\* Fair scheduling: a call that can take its next statement takes it (every
\* goroutine keeps running), and a caller waiting in Lock() gets the mutex if
\* it is free again and again (sync.Mutex hands the mutex to a waiter that
\* has been starved).  Nothing obliges a caller to invoke anything.
Fairness ==
    \A p \in Procs : WF_vars(Proceed(p)) /\ SF_vars(LockReturns(p))

SpecFair == Init /\ [][NextFair]_vars /\ Fairness

\* The positions of a caller waiting for the mutex.
WaitingPcs == {"cr_lock", "up_lock", "dr_lock", "db_lock"}

\* C22: a caller holds the read lock only inside a CreateReplication and
\* holds it whenever it waits for or holds the mutex there; the mutex is
\* held by exactly the caller inside a mutation; a caller that has ended
\* its call, on whatever path, holds no lock; and under fair scheduling
\* every invoked mutation gets the mutex and ends.
C22_LocksReleasedAndCallsEnd ==
    /\ [](\A p \in Procs :
            /\ p \in rlock <=> frame[p].name = "CreateReplication"
            /\ mu = p <=> InMutation(p)
            /\ pc[p] = "idle" => (mu # p /\ p \notin rlock))
    /\ \A p \in Procs : (pc[p] \in WaitingPcs) ~> InMutation(p)
    /\ \A p \in Procs : (pc[p] # "idle") ~> (pc[p] = "idle")

\* C22 case: a create that holds the read lock waits for the mutex, which the
\* other caller holds on the error path of an update.
C22_Witness ==
    \E p, q \in Procs :
        /\ pc[p] = "cr_lock"
        /\ p \in rlock
        /\ mu = q
        /\ pc[q] = "up_ret"
        /\ frame[q].ret = "QueueErr"

=============================================================================
